---- MODULE Spec2Model ----
(***************************************************************************)
(* Model of egg's S-expression front end (src/parse.rs): the term builder  *)
(* parse_term and the two entry points Pattern::from_str and               *)
(* RecExpr::from_str.                                                      *)
(*                                                                         *)
(* Strings are sequences of one-character strings, so that trim,           *)
(* starts_with and ends_with are computed and not assumed.                 *)
(***************************************************************************)
EXTENDS Integers, Sequences, FiniteSets, TLC

\* ------------------------------------------------------------------ bounds
\* Largest number of nodes (atoms, lists, empties) of a generic tree, and of
\* a constructed expression.
MaxNodes == 4

\* ------------------------------------------------------------- characters
WS == " "

\* Rust's str::trim restricted to the whitespace character of the model.
RECURSIVE TrimStart(_)
TrimStart(s) ==
    IF s = <<>> THEN s
    ELSE IF Head(s) = WS THEN TrimStart(Tail(s)) ELSE s

RECURSIVE TrimEnd(_)
TrimEnd(s) ==
    IF s = <<>> THEN s
    ELSE IF s[Len(s)] = WS THEN TrimEnd(SubSeq(s, 1, Len(s) - 1)) ELSE s

Trim(s) == TrimEnd(TrimStart(s))

\* str::starts_with and str::ends_with
StartsWith(s, p) == Len(s) >= Len(p) /\ SubSeq(s, 1, Len(p)) = p

EndsWith(s, p) == Len(s) >= Len(p) /\ SubSeq(s, Len(s) - Len(p) + 1, Len(s)) = p

Dots == <<".", ".", ".">>

\* ------------------------------------------------------------ atom tokens
tokX      == <<"x">>
tokPlus   == <<"+">>
tokOne    == <<"1">>
tokQa     == <<"?", "a">>
tokQas    == <<"?", "a", ".", ".", ".">>
tokQdd    == <<"?", ".", ".">>
tokSpX    == <<" ", "x">>
tokEmpty  == <<>>

\* The strings an Atom of the reader's tree may carry.  The last two break
\* the reader's contract (surrounding whitespace, empty).
Tokens == {tokX, tokPlus, tokOne, tokQa, tokQas, tokQdd, tokSpX, tokEmpty}

\* ---------------------------------------------------------- the language L
\* L is the type parameter of parse_term.  "String" is the language of the
\* repository's test (RecExpr<String>): its FromStr accepts every string.
\* "Arith" is a language with the operators + and x only.
Langs == {"String", "Arith"}

ArithTokens == {tokPlus, tokX}

\* s.parse::<L>(): does the token parse, and the operator it parses to.
LangAccepts(L, s) == IF L = "String" THEN TRUE ELSE s \in ArithTokens

LangParse(L, s) == s

\* ------------------------------------------------------- the generic tree
\* symbolic_expressions::Sexp: String(s), List(vec), Empty.  All three are
\* records with the same fields.
SexpString(s) == [tag |-> "String", s |-> s, vec |-> <<>>]

SexpList(v) == [tag |-> "List", s |-> <<>>, vec |-> v]

SexpEmpty == [tag |-> "Empty", s |-> <<>>, vec |-> <<>>]

\* ------------------------------------------------------------- patterns
\* pattern::WildcardKind
WildcardKinds == {"Single", "ZeroOrMore"}

\* Pattern::ENode(ENode::new(op, children)) and Pattern::Wildcard(q, kind)
PatENode(op, children) ==
    [tag |-> "ENode", op |-> op, children |-> children, kind |-> "none"]

PatWildcard(q, kind) ==
    [tag |-> "Wildcard", op |-> q, children |-> <<>>, kind |-> kind]

\* ENode::leaf(t)
PatLeaf(op) == PatENode(op, <<>>)

NoPattern == [tag |-> "none", op |-> <<>>, children |-> <<>>, kind |-> "none"]

\* -------------------------------------------------------------- outcomes
\* What a call of parse_term ends with: Ok(pattern), Err(ParseError(msg)) or
\* a panic, which returns nothing to the caller.  An error message
\* format!(text, arg) is kept as the pair of its text and its argument.
\* visited is the log of the elements the call looked at, in order: the
\* nodes parse_term was called on ("term") and the first elements of lists
\* matched as operators ("op").  It is not part of the returned value.
MsgCouldntParse == "Couldn't parse '{}'"
MsgBadOp        == "bad op: {}"
MsgExpectedOp   == "expected op, got {}"
MsgEmpty        == "empty!"
MsgWhitespace   == "There's whitespace!"
MsgAssert       == "assertion failed: !vec.is_empty()"
MsgLexical      == "SexpError"
MsgWildcard     == "Found wildcard {} instead of expr term"

NoErr == [msg |-> "none", arg |-> SexpEmpty]

Visit(path, as) == [path |-> path, as |-> as]

Ok(p, vis) == [tag |-> "Ok", val |-> p, err |-> NoErr, visited |-> vis]

Err(msg, arg, vis) ==
    [tag |-> "Err", val |-> NoPattern, err |-> [msg |-> msg, arg |-> arg],
     visited |-> vis]

Panic(msg, vis) ==
    [tag |-> "Panic", val |-> NoPattern, err |-> [msg |-> msg, arg |-> SexpEmpty],
     visited |-> vis]

\* ------------------------------------------------------ symbol classifier
\* s.parse::<QuestionMarkName>() succeeds
QuestionMarkNameOk(s) == s # <<>> /\ StartsWith(s, <<"?">>)

\* A faulty variant of KindOf: two dots are taken for the suffix.
KindOfTwoDots(q) == IF EndsWith(q, <<".", ".">>) THEN "ZeroOrMore" ELSE "Single"

\* The kind computed from the wildcard's name.
KindOf(q) == IF EndsWith(q, Dots) THEN "ZeroOrMore" ELSE "Single"

\* A faulty variant of IsMalformed: surrounding whitespace is not looked for.
IsMalformedEmptyOnly(s) == s = <<>>

\* The condition of the panic of the Sexp::String arm.
IsMalformed(s) == Trim(s) # s \/ s = <<>>

\* A faulty variant of ParseAtom: L is asked before the wildcard name.
ParseAtomLangFirst(L, s, path) ==
    LET vis == <<Visit(path, "term")>> IN
    IF IsMalformed(s)
    THEN Panic(MsgWhitespace, vis)
    ELSE IF LangAccepts(L, s)
    THEN Ok(PatLeaf(LangParse(L, s)), vis)
    ELSE IF QuestionMarkNameOk(s)
    THEN Ok(PatWildcard(s, KindOf(s)), vis)
    ELSE Err(MsgCouldntParse, SexpString(s), vis)

\* A faulty variant of ParseAtom: the error does not carry the token.
ParseAtomBadMsg(L, s, path) ==
    LET vis == <<Visit(path, "term")>> IN
    IF IsMalformed(s)
    THEN Panic(MsgWhitespace, vis)
    ELSE IF QuestionMarkNameOk(s)
    THEN Ok(PatWildcard(s, KindOf(s)), vis)
    ELSE IF LangAccepts(L, s)
    THEN Ok(PatLeaf(LangParse(L, s)), vis)
    ELSE Err(MsgCouldntParse, SexpEmpty, vis)

\* The Sexp::String arm of parse_term.
ParseAtom(L, s, path) ==
    LET vis == <<Visit(path, "term")>> IN
    IF IsMalformed(s)
    THEN Panic(MsgWhitespace, vis)
    ELSE IF QuestionMarkNameOk(s)
    THEN Ok(PatWildcard(s, KindOf(s)), vis)
    ELSE IF LangAccepts(L, s)
    THEN Ok(PatLeaf(LangParse(L, s)), vis)
    ELSE Err(MsgCouldntParse, SexpString(s), vis)

\* ----------------------------------------------------------- term builder
\* A variant of EmptyList that returns an error value instead of panicking.
EmptyListAsError(vis) == Err("empty list", SexpList(<<>>), vis)

\* assert!(!vec.is_empty()) failing
EmptyList(vis) == Panic(MsgAssert, vis)

\* A faulty variant of EmptyTerm: an Empty node becomes a leaf.
EmptyTermAsLeaf(vis) == Ok(PatLeaf(<<>>), vis)

\* The Sexp::Empty arm of parse_term.
EmptyTerm(vis) == Err(MsgEmpty, SexpEmpty, vis)

\* A variant of ParseOp that refuses wildcard names in operator position.
ParseOpRejectSigil(L, first, vis) ==
    IF first.tag = "String"
    THEN IF LangAccepts(L, first.s) /\ ~QuestionMarkNameOk(first.s)
         THEN Ok(PatLeaf(LangParse(L, first.s)), vis)
         ELSE Err(MsgBadOp, first, vis)
    ELSE Err(MsgExpectedOp, first, vis)

\* The operator of a list, from its first element: an atom is parsed by L,
\* anything else is refused.  The operator is returned as a leaf.
ParseOp(L, first, vis) ==
    IF first.tag = "String"
    THEN IF LangAccepts(L, first.s)
         THEN Ok(PatLeaf(LangParse(L, first.s)), vis)
         ELSE Err(MsgBadOp, first, vis)
    ELSE Err(MsgExpectedOp, first, vis)

RECURSIVE ParseTermAt(_, _, _)
RECURSIVE CollectChildren(_, _, _, _, _, _)

\* A faulty variant of CollectChildren: the children are collected in
\* reverse order.
RECURSIVE CollectChildrenReversed(_, _, _, _, _, _)
CollectChildrenReversed(L, vec, i, path, pats, vis) ==
    IF i > Len(vec)
    THEN [tag |-> "Ok", pats |-> pats, err |-> NoErr, visited |-> vis]
    ELSE LET r == ParseTermAt(L, vec[i], Append(path, i)) IN
         IF r.tag = "Ok"
         THEN CollectChildrenReversed(L, vec, i + 1, path, <<r.val>> \o pats,
                                      vis \o r.visited)
         ELSE [tag |-> r.tag, pats |-> <<>>, err |-> r.err,
               visited |-> vis \o r.visited]

\* A faulty variant of CollectChildren: every element is converted before
\* the first error is reported.
RECURSIVE CollectChildrenEager(_, _, _, _, _, _)
CollectChildrenEager(L, vec, i, path, pats, vis) ==
    IF i > Len(vec)
    THEN [tag |-> "Ok", pats |-> pats, err |-> NoErr, visited |-> vis]
    ELSE LET r == ParseTermAt(L, vec[i], Append(path, i)) IN
         IF r.tag = "Panic"
         THEN [tag |-> r.tag, pats |-> <<>>, err |-> r.err,
               visited |-> vis \o r.visited]
         ELSE LET rest == CollectChildrenEager(L, vec, i + 1, path,
                              IF r.tag = "Ok" THEN Append(pats, r.val) ELSE pats,
                              vis \o r.visited)
              IN
              IF r.tag = "Ok" \/ rest.tag = "Panic"
              THEN rest
              ELSE [tag |-> r.tag, pats |-> <<>>, err |-> r.err,
                    visited |-> rest.visited]

\* sexps.map(|s| parse_term(s)).collect::<Result<Vec<_>>>() from element i
\* on: the elements are converted in order and the first one that does not
\* yield Ok ends the iteration.
CollectChildren(L, vec, i, path, pats, vis) ==
    IF i > Len(vec)
    THEN [tag |-> "Ok", pats |-> pats, err |-> NoErr, visited |-> vis]
    ELSE LET r == ParseTermAt(L, vec[i], Append(path, i)) IN
         IF r.tag = "Ok"
         THEN CollectChildren(L, vec, i + 1, path, Append(pats, r.val),
                              vis \o r.visited)
         ELSE [tag |-> r.tag, pats |-> <<>>, err |-> r.err,
               visited |-> vis \o r.visited]

\* The Sexp::List arm of parse_term.
ParseList(L, vec, path) ==
    LET vis == <<Visit(path, "term")>> IN
    IF vec = <<>>
    THEN EmptyList(vis)
    ELSE LET op == ParseOp(L, vec[1], Append(vis, Visit(Append(path, 1), "op"))) IN
         IF op.tag # "Ok"
         THEN op
         ELSE LET ch == CollectChildren(L, vec, 2, path, <<>>, op.visited) IN
              IF ch.tag = "Ok"
              THEN Ok(PatENode(op.val.op, ch.pats), ch.visited)
              ELSE [tag |-> ch.tag, val |-> NoPattern, err |-> ch.err,
                    visited |-> ch.visited]

\* parse_term on the node found at `path` of the tree being parsed.
ParseTermAt(L, sexp, path) ==
    CASE sexp.tag = "String" -> ParseAtom(L, sexp.s, path)
      [] sexp.tag = "List"   -> ParseList(L, sexp.vec, path)
      [] sexp.tag = "Empty"  -> EmptyTerm(<<Visit(path, "term")>>)

\* parse_term(&sexp)
ParseTerm(L, sexp) == ParseTermAt(L, sexp, <<>>)

\* ------------------------------------------------- concrete expressions
\* RecExpr<L>: an operator and its children, no wildcard variant.
RecNode(op, children) == [op |-> op, children |-> children]

NoExpr == RecNode(<<>>, <<>>)

ExprOk(e) == [tag |-> "Ok", val |-> e, err |-> NoErr]

ExprFail(tag, err) == [tag |-> tag, val |-> NoExpr, err |-> err]

\* Pattern -> RecExpr (pat.try_into()): fails on the first wildcard met in
\* a depth-first, left-to-right walk.
RECURSIVE TryInto(_)
RECURSIVE TryIntoChildren(_, _, _)

TryIntoChildren(children, i, acc) ==
    IF i > Len(children)
    THEN [tag |-> "Ok", exprs |-> acc, err |-> NoErr]
    ELSE LET r == TryInto(children[i]) IN
         IF r.tag = "Ok"
         THEN TryIntoChildren(children, i + 1, Append(acc, r.val))
         ELSE [tag |-> r.tag, exprs |-> <<>>, err |-> r.err]

TryInto(pat) ==
    IF pat.tag = "Wildcard"
    THEN ExprFail("Err", [msg |-> MsgWildcard, arg |-> SexpString(pat.op)])
    ELSE LET ch == TryIntoChildren(pat.children, 1, <<>>) IN
         IF ch.tag = "Ok"
         THEN ExprOk(RecNode(pat.op, ch.exprs))
         ELSE ExprFail(ch.tag, ch.err)

\* ------------------------------------------------------------ the reader
\* The outcome of symbolic_expressions' parse_str: a tree or a SexpError.
ReadOk(sexp) == [ok |-> TRUE, sexp |-> sexp]

ReadErr == [ok |-> FALSE, sexp |-> SexpEmpty]

Delims == {"(", ")", WS}

RECURSIVE SkipWs(_, _)
SkipWs(t, i) == IF i <= Len(t) /\ t[i] = WS THEN SkipWs(t, i + 1) ELSE i

RECURSIVE AtomEnd(_, _)
AtomEnd(t, i) == IF i > Len(t) \/ t[i] \in Delims THEN i ELSE AtomEnd(t, i + 1)

RECURSIVE ReadSexp(_, _)
RECURSIVE ReadElems(_, _, _)

\* Reads the elements of a list up to its closing parenthesis.
ReadElems(t, i, acc) ==
    LET j == SkipWs(t, i) IN
    IF j > Len(t)
    THEN [ok |-> FALSE, sexp |-> SexpEmpty, next |-> j]
    ELSE IF t[j] = ")"
    THEN [ok |-> TRUE, sexp |-> SexpList(acc), next |-> j + 1]
    ELSE LET r == ReadSexp(t, j) IN
         IF r.ok THEN ReadElems(t, r.next, Append(acc, r.sexp)) ELSE r

\* Reads one term starting at the non-blank position i.
ReadSexp(t, i) ==
    IF t[i] = "("
    THEN ReadElems(t, i + 1, <<>>)
    ELSE IF t[i] = ")"
    THEN [ok |-> FALSE, sexp |-> SexpEmpty, next |-> i]
    ELSE LET j == AtomEnd(t, i) IN
         [ok |-> TRUE, sexp |-> SexpString(SubSeq(t, i, j - 1)), next |-> j]

\* parse_str(text): the empty text reads as Empty, an atom as String, a
\* parenthesised sequence as List; anything else is a lexical error.
ParseStr(t) ==
    IF t = <<>>
    THEN ReadOk(SexpEmpty)
    ELSE LET i == SkipWs(t, 1) IN
         IF i > Len(t)
         THEN ReadOk(SexpEmpty)
         ELSE LET r == ReadSexp(t, i) IN
              IF r.ok /\ SkipWs(t, r.next) > Len(t)
              THEN ReadOk(r.sexp)
              ELSE ReadErr

\* ---------------------------------------------------------------- printing
RECURSIVE SexpToString(_)
RECURSIVE JoinElems(_, _)

JoinElems(vec, i) ==
    IF i > Len(vec) THEN <<>>
    ELSE (IF i > 1 THEN <<WS>> ELSE <<>>) \o SexpToString(vec[i])
         \o JoinElems(vec, i + 1)

\* Display of a Sexp: atoms as they are, lists in parentheses with one blank
\* between elements.
SexpToString(x) ==
    CASE x.tag = "String" -> x.s
      [] x.tag = "List"   -> <<"(">> \o JoinElems(x.vec, 1) \o <<")">>
      [] x.tag = "Empty"  -> <<>>

\* RecExpr::to_sexp: a leaf prints as its operator, a node with children as
\* the list of its operator and its children.
RECURSIVE ToSexp(_)
ToSexp(e) ==
    IF e.children = <<>>
    THEN SexpString(e.op)
    ELSE SexpList(<<SexpString(e.op)>>
                  \o [i \in 1..Len(e.children) |-> ToSexp(e.children[i])])

\* Display of a RecExpr.
ExprToString(e) == SexpToString(ToSexp(e))

\* ------------------------------------------------------------ entry points
\* Pattern::from_str(s), rd being the outcome of parse_str(s.trim()).
PatternFromStr(L, rd) ==
    IF rd.ok THEN ParseTerm(L, rd.sexp) ELSE Err(MsgLexical, SexpEmpty, <<>>)

\* Wildcards become leaves named after them.
RECURSIVE Lossy(_)
Lossy(p) == RecNode(p.op, [i \in 1..Len(p.children) |-> Lossy(p.children[i])])

\* A faulty variant of RecExprFromStr: only a wildcard at the root is
\* refused.
RecExprFromStrLossy(L, rd) ==
    LET pat == PatternFromStr(L, rd) IN
    IF pat.tag # "Ok"
    THEN ExprFail(pat.tag, pat.err)
    ELSE IF pat.val.tag = "Wildcard"
    THEN TryInto(pat.val)
    ELSE ExprOk(Lossy(pat.val))

\* RecExpr::from_str(s), rd being the outcome of parse_str(s.trim()).
RecExprFromStr(L, rd) ==
    LET pat == PatternFromStr(L, rd) IN
    IF pat.tag = "Ok" THEN TryInto(pat.val) ELSE ExprFail(pat.tag, pat.err)

\* ------------------------------------------------------------------ inputs
\* The generic trees of n nodes, and the sequences of trees of n nodes in
\* all.  An atom, an Empty and an empty list are one node each.
RECURSIVE TreesOfSize(_)
RECURSIVE ForestsOfSize(_)

TreesOfSize(n) ==
    IF n = 1
    THEN {SexpString(s) : s \in Tokens} \cup {SexpEmpty, SexpList(<<>>)}
    ELSE {SexpList(f) : f \in ForestsOfSize(n - 1)}

ForestsOfSize(n) ==
    IF n = 0
    THEN {<<>>}
    ELSE UNION {{<<t>> \o f : t \in TreesOfSize(k), f \in ForestsOfSize(n - k)} :
                k \in 1..n}

SexpTrees == UNION {TreesOfSize(n) : n \in 1..MaxNodes}

\* What parse_str may hand back: any tree, or a lexical error.
ReaderOutcomes == {ReadOk(t) : t \in SexpTrees} \cup {ReadErr}

\* The operator tokens expressions are built from: the two of the
\* repository's test, and one that begins with the wildcard sigil.
BuildTokens == {tokPlus, tokX, tokQa}

OpTokens(L) == {s \in BuildTokens : LangAccepts(L, s)}

\* The expressions of n nodes built directly from operators of L, as the
\* recexpr! macro builds them.
RECURSIVE ExprsOfSize(_, _)
RECURSIVE ExprSeqsOfSize(_, _)

ExprsOfSize(L, n) ==
    {RecNode(LangParse(L, s), f) : s \in OpTokens(L), f \in ExprSeqsOfSize(L, n - 1)}

ExprSeqsOfSize(L, n) ==
    IF n = 0
    THEN {<<>>}
    ELSE UNION {{<<e>> \o f : e \in ExprsOfSize(L, k), f \in ExprSeqsOfSize(L, n - k)} :
                k \in 1..n}

StringExprs == UNION {ExprsOfSize("String", n) : n \in 1..MaxNodes}

ArithExprs == UNION {ExprsOfSize("Arith", n) : n \in 1..MaxNodes}

Exprs(L) == IF L = "String" THEN StringExprs ELSE ArithExprs

\* ------------------------------------------------------------------- state
VARIABLES
    lang,   \* the language L the caller parses for
    pc,     \* "start", then where the call made has arrived
    rd,     \* the reader's outcome handed to the term builder
    pat,    \* the outcome of Pattern::from_str
    expr,   \* the outcome of RecExpr::from_str
    orig,   \* the expression built directly
    text    \* the text the expression was printed to

vars == <<lang, pc, rd, pat, expr, orig, text>>

NoResult == [tag |-> "none", val |-> NoPattern, err |-> NoErr, visited |-> <<>>]

NoExprResult == ExprFail("none", NoErr)

Init ==
    /\ lang \in Langs
    /\ pc = "start"
    /\ rd = ReadErr
    /\ pat = NoResult
    /\ expr = NoExprResult
    /\ orig = NoExpr
    /\ text = <<>>

\* s.parse::<Pattern<L>>() on a text the reader answers r for.
ParsePattern(r) ==
    /\ pc = "start"
    /\ rd' = r
    /\ pat' = PatternFromStr(lang, r)
    /\ pc' = "pattern"
    /\ UNCHANGED <<lang, expr, orig, text>>

\* s.parse::<RecExpr<L>>() on a text the reader answers r for.
ParseRecExpr(r) ==
    /\ pc = "start"
    /\ rd' = r
    /\ pat' = PatternFromStr(lang, r)
    /\ expr' = RecExprFromStr(lang, r)
    /\ pc' = "expr"
    /\ UNCHANGED <<lang, orig, text>>

\* An expression is built directly from operators of L.
Build(e) ==
    /\ pc = "start"
    /\ orig' = e
    /\ pc' = "built"
    /\ UNCHANGED <<lang, rd, pat, expr, text>>

\* The built expression is printed and the text parsed as a RecExpr.
PrintAndParse ==
    /\ pc = "built"
    /\ text' = ExprToString(orig)
    /\ rd' = ParseStr(Trim(text'))
    /\ pat' = PatternFromStr(lang, rd')
    /\ expr' = RecExprFromStr(lang, rd')
    /\ pc' = "reparsed"
    /\ UNCHANGED <<lang, orig>>

Next ==
    \/ pc = "start" /\ \E r \in ReaderOutcomes : ParsePattern(r)
    \/ pc = "start" /\ \E r \in ReaderOutcomes : ParseRecExpr(r)
    \/ pc = "start" /\ \E e \in Exprs(lang) : Build(e)
    \/ PrintAndParse

Spec == Init /\ [][Next]_vars

\* ======================================================================
\* Properties
\* ======================================================================
\* The node of a generic tree at a path of element indices.
RECURSIVE NodeAt(_, _)
NodeAt(sexp, path) ==
    IF path = <<>> THEN sexp ELSE NodeAt(sexp.vec[Head(path)], Tail(path))

\* The node of a pattern that was built from the generic node at `path`:
\* element i + 1 of a list becomes child i.
RECURSIVE PatAt(_, _)
PatAt(p, path) ==
    IF path = <<>> THEN p ELSE PatAt(p.children[Head(path) - 1], Tail(path))

\* The positions of a generic tree in depth-first, left-to-right order, each
\* with its role: the first element of a list is in operator position.
RECURSIVE Preorder(_, _, _)
RECURSIVE PreorderElems(_, _, _)

PreorderElems(vec, path, i) ==
    IF i > Len(vec) THEN <<>>
    ELSE Preorder(vec[i], Append(path, i), IF i = 1 THEN "op" ELSE "term")
         \o PreorderElems(vec, path, i + 1)

Preorder(sexp, path, role) ==
    <<Visit(path, role)>>
    \o (IF sexp.tag = "List" THEN PreorderElems(sexp.vec, path, 1) ELSE <<>>)

Positions(sexp) == Preorder(sexp, <<>>, "term")

\* The positions in term (non-operator) position all the way down.
TermPaths(sexp) ==
    LET pre == Positions(sexp) IN
    {pre[k].path : k \in {j \in 1..Len(pre) :
                          \A m \in 1..Len(pre[j].path) : pre[j].path[m] >= 2}}

WellFormedToken(s) == Len(s) >= 1 /\ s[1] # WS /\ s[Len(s)] # WS

BeginsWithSigil(s) == Len(s) >= 1 /\ s[1] = "?"

EndsWithThreeDots(s) == Len(s) >= 3 /\ \A k \in 0..2 : s[Len(s) - k] = "."

\* A parse entry point has returned (or panicked) on a tree read by the reader.
Parsed == pc \in {"pattern", "expr", "reparsed"} /\ rd.ok

\* C1: a leaf atom token that begins with `?` (non-empty, no surrounding
\* whitespace) becomes a Wildcard whose name is the whole token, also when
\* L would accept the token as an operator; its kind is ZeroOrMore iff the
\* token ends with `...`, Single otherwise.
C1_WildcardClassification ==
    Parsed =>
      /\ (rd.sexp.tag = "String" /\ BeginsWithSigil(rd.sexp.s)
            /\ WellFormedToken(rd.sexp.s)) => pat.tag = "Ok"
      /\ pat.tag = "Ok" =>
           \A p \in TermPaths(rd.sexp) :
             LET n == NodeAt(rd.sexp, p) IN
             (n.tag = "String" /\ BeginsWithSigil(n.s)) =>
               LET w == PatAt(pat.val, p) IN
               /\ w.tag = "Wildcard"
               /\ w.op = n.s
               /\ w.children = <<>>
               /\ w.kind = (IF EndsWithThreeDots(n.s) THEN "ZeroOrMore" ELSE "Single")

\* A `?xs...` leaf under an operator, in the language that accepts every
\* token, has become a ZeroOrMore wildcard.
C1_Witness ==
    /\ pc = "pattern" /\ lang = "String" /\ pat.tag = "Ok"
    /\ rd = ReadOk(SexpList(<<SexpString(tokX), SexpString(tokQas)>>))
    /\ pat.val.children[1] = PatWildcard(tokQas, "ZeroOrMore")

\* C8: when the term builder succeeds on a list of n >= 1 elements, the
\* result is an ENode whose operator is the L-parse of the first element and
\* whose n - 1 children are the term builder's results on the remaining
\* elements, in their order.
C8_ListChildrenInOrder ==
    (Parsed /\ pat.tag = "Ok" /\ rd.sexp.tag = "List") =>
      LET vec == rd.sexp.vec
          n   == Len(vec)
      IN
      /\ n >= 1
      /\ vec[1].tag = "String"
      /\ LangAccepts(lang, vec[1].s)
      /\ pat.val.tag = "ENode"
      /\ pat.val.op = LangParse(lang, vec[1].s)
      /\ Len(pat.val.children) = n - 1
      /\ \A i \in 1..(n - 1) :
           /\ ParseTerm(lang, vec[i + 1]).tag = "Ok"
           /\ pat.val.children[i] = ParseTerm(lang, vec[i + 1]).val

\* A three-element list with two different children has been built.
C8_Witness ==
    /\ pc = "pattern" /\ pat.tag = "Ok"
    /\ rd = ReadOk(SexpList(<<SexpString(tokPlus), SexpString(tokX), SexpString(tokQa)>>))
    /\ pat.val = PatENode(tokPlus, <<PatLeaf(tokX), PatWildcard(tokQa, "Single")>>)

\* What goes wrong at a position taken alone, in its role: "Ok" if nothing.
LocalOutcome(L, n, role) ==
    IF role = "op"
    THEN CASE n.tag # "String"      -> [tag |-> "Err", err |-> [msg |-> MsgExpectedOp, arg |-> n]]
           [] ~LangAccepts(L, n.s)  -> [tag |-> "Err", err |-> [msg |-> MsgBadOp, arg |-> n]]
           [] OTHER                 -> [tag |-> "Ok", err |-> NoErr]
    ELSE CASE n.tag = "Empty" ->
                [tag |-> "Err", err |-> [msg |-> MsgEmpty, arg |-> SexpEmpty]]
           [] n.tag = "List" /\ Len(n.vec) = 0 ->
                [tag |-> "Panic", err |-> [msg |-> MsgAssert, arg |-> SexpEmpty]]
           [] n.tag = "String" /\ ~WellFormedToken(n.s) ->
                [tag |-> "Panic", err |-> [msg |-> MsgWhitespace, arg |-> SexpEmpty]]
           [] n.tag = "String" /\ ~BeginsWithSigil(n.s) /\ ~LangAccepts(L, n.s) ->
                [tag |-> "Err", err |-> [msg |-> MsgCouldntParse, arg |-> n]]
           [] OTHER -> [tag |-> "Ok", err |-> NoErr]

\* The indices of the failing positions, in traversal order.
FailingIndices(L, sexp) ==
    LET pre == Positions(sexp) IN
    {k \in 1..Len(pre) : LocalOutcome(L, NodeAt(sexp, pre[k].path), pre[k].as).tag # "Ok"}

Min(S) == CHOOSE k \in S : \A j \in S : k <= j

C10_Original ==
    (Parsed /\ rd.sexp.tag = "String" /\ ~BeginsWithSigil(rd.sexp.s)) =>
      IF LangAccepts(lang, rd.sexp.s)
      THEN pat.tag = "Ok" /\ pat.val = PatENode(LangParse(lang, rd.sexp.s), <<>>)
      ELSE pat.tag = "Err" /\ pat.val = NoPattern
           /\ pat.err = [msg |-> MsgCouldntParse, arg |-> rd.sexp]

\* C10, amended: the same for the tokens that are non-empty and have no
\* surrounding whitespace, at the root and at every leaf the traversal
\* converts or stops at.
C10_LeafOperator ==
    Parsed =>
      /\ (rd.sexp.tag = "String" /\ ~BeginsWithSigil(rd.sexp.s)
            /\ WellFormedToken(rd.sexp.s)) =>
           IF LangAccepts(lang, rd.sexp.s)
           THEN pat.tag = "Ok" /\ pat.val = PatENode(LangParse(lang, rd.sexp.s), <<>>)
           ELSE pat.tag = "Err" /\ pat.val = NoPattern
                /\ pat.err = [msg |-> MsgCouldntParse, arg |-> rd.sexp]
      /\ pat.tag = "Ok" =>
           \A p \in TermPaths(rd.sexp) :
             LET n == NodeAt(rd.sexp, p) IN
             (n.tag = "String" /\ ~BeginsWithSigil(n.s)) =>
               /\ LangAccepts(lang, n.s)
               /\ PatAt(pat.val, p) = PatENode(LangParse(lang, n.s), <<>>)
      /\ pat.visited # <<>> =>
           LET last == pat.visited[Len(pat.visited)]
               n    == NodeAt(rd.sexp, last.path)
           IN
           (last.as = "term" /\ n.tag = "String" /\ WellFormedToken(n.s)
              /\ ~BeginsWithSigil(n.s) /\ ~LangAccepts(lang, n.s)) =>
             /\ pat.tag = "Err" /\ pat.val = NoPattern
             /\ pat.err = [msg |-> MsgCouldntParse, arg |-> n]

\* The token 1, which Arith does not accept, has been refused by name.
C10_Witness ==
    /\ pc = "pattern" /\ lang = "Arith"
    /\ rd = ReadOk(SexpString(tokOne))
    /\ pat.tag = "Err"
    /\ pat.err = [msg |-> MsgCouldntParse, arg |-> SexpString(tokOne)]

\* C2 as stated: a list whose first element is a nested list or a token
\* beginning with `?` never yields a pattern, whatever the language.
C2_Original ==
    (Parsed /\ rd.sexp.tag = "List" /\ Len(rd.sexp.vec) >= 1
       /\ \/ rd.sexp.vec[1].tag = "List"
          \/ rd.sexp.vec[1].tag = "String" /\ BeginsWithSigil(rd.sexp.vec[1].s))
      => pat.tag # "Ok"

\* C2, amended: a list whose first element is not an atom (a nested list, an
\* Empty) fails with the `expected op` error, in every language; a first
\* element that is an atom is only parsed by L, also when it begins with
\* `?`: the list fails there (`bad op`) iff L refuses the token, and if L
\* accepts it the token is the operator of the ENode built.
C2_OperatorPosition ==
    (Parsed /\ rd.sexp.tag = "List" /\ Len(rd.sexp.vec) >= 1) =>
      LET first == rd.sexp.vec[1]
          atOp  == Len(pat.visited) = 2 /\ pat.tag # "Ok"
      IN
      /\ first.tag # "String" =>
           /\ pat.tag = "Err" /\ pat.val = NoPattern
           /\ pat.err = [msg |-> MsgExpectedOp, arg |-> first]
      /\ (first.tag = "String" /\ ~LangAccepts(lang, first.s)) =>
           /\ pat.tag = "Err" /\ pat.val = NoPattern
           /\ pat.err = [msg |-> MsgBadOp, arg |-> first]
      /\ (first.tag = "String" /\ LangAccepts(lang, first.s)) =>
           /\ ~atOp
           /\ pat.tag = "Ok" => (pat.val.tag = "ENode" /\ pat.val.op = first.s)

\* In the language that accepts every token, (?a x) has been built with the
\* operator ?a.
C2_Witness ==
    /\ pc = "pattern" /\ lang = "String"
    /\ rd = ReadOk(SexpList(<<SexpString(tokQa), SexpString(tokX)>>))
    /\ pat.tag = "Ok"
    /\ pat.val = PatENode(tokQa, <<PatLeaf(tokX)>>)

\* Does a pattern hold a wildcard, at any depth.
RECURSIVE HasWildcard(_)
HasWildcard(p) ==
    \/ p.tag = "Wildcard"
    \/ \E i \in 1..Len(p.children) : HasWildcard(p.children[i])

\* A pattern without wildcards and an expression with the same operators
\* and the same children, in the same order.
RECURSIVE SameTree(_, _)
SameTree(p, e) ==
    /\ p.tag = "ENode"
    /\ p.op = e.op
    /\ Len(p.children) = Len(e.children)
    /\ \A i \in 1..Len(p.children) : SameTree(p.children[i], e.children[i])

\* C3: when the text parses as a pattern, RecExpr::from_str fails with the
\* wildcard-in-ground-term error if the pattern holds a wildcard at any
\* depth, and otherwise returns the tree of the same shape and operators.
C3_Downgrade ==
    (pc \in {"expr", "reparsed"} /\ pat.tag = "Ok") =>
      IF HasWildcard(pat.val)
      THEN expr.tag = "Err" /\ expr.err.msg = MsgWildcard /\ expr.val = NoExpr
      ELSE expr.tag = "Ok" /\ SameTree(pat.val, expr.val)

\* (+ ?a ?a): the wildcards are below the root and the conversion failed.
C3_Witness ==
    /\ pc = "expr"
    /\ rd = ReadOk(SexpList(<<SexpString(tokPlus), SexpString(tokQa), SexpString(tokQa)>>))
    /\ pat.tag = "Ok" /\ pat.val.tag = "ENode"
    /\ expr.tag = "Err" /\ expr.err.msg = MsgWildcard

\* The term builder was called on the node at path p.
CalledOn(p) == \E k \in 1..Len(pat.visited) : pat.visited[k] = Visit(p, "term")

\* The paths of a tree.
Paths(sexp) == LET pre == Positions(sexp) IN {pre[k].path : k \in 1..Len(pre)}

\* C4 as stated: a list without elements that reaches the term builder makes
\* the parse return an error value.
C4_Original ==
    (Parsed /\ \E p \in Paths(rd.sexp) :
                  NodeAt(rd.sexp, p) = SexpList(<<>>) /\ CalledOn(p))
      => pat.tag = "Err"

\* C4, amended: a list without elements the term builder is called on (at
\* the root as for the text `()`, or as a non-first element the traversal
\* reaches) fails the assertion on the list: the call panics and returns
\* neither an error value nor a pattern, from either entry point.
C4_EmptyListPanics ==
    /\ (Parsed /\ \E p \in Paths(rd.sexp) :
                     NodeAt(rd.sexp, p) = SexpList(<<>>) /\ CalledOn(p))
         => /\ pat.tag = "Panic" /\ pat.err.msg = MsgAssert /\ pat.val = NoPattern
            /\ pc = "expr" => (expr.tag = "Panic" /\ expr.val = NoExpr)
    /\ (Parsed /\ rd = ParseStr(<<"(", ")">>)) => pat.tag = "Panic"

\* The empty list is an argument of an operator, and the call panicked.
C4_Witness ==
    /\ pc = "expr"
    /\ rd = ReadOk(SexpList(<<SexpString(tokX), SexpList(<<>>)>>))
    /\ pat.tag = "Panic" /\ expr.tag = "Panic"

\* Does a tree hold an atom whose token is empty or has surrounding
\* whitespace.
HasMalformedAtom(sexp) ==
    \E p \in Paths(sexp) :
      NodeAt(sexp, p).tag = "String" /\ ~WellFormedToken(NodeAt(sexp, p).s)

\* C5 as stated: an atom token that is empty or has surrounding whitespace,
\* wherever it is in the tree, makes the parse return an error value.
C5_Original == (Parsed /\ HasMalformedAtom(rd.sexp)) => pat.tag = "Err"

\* C5, amended: the term builder panics when it is called on an atom whose
\* token is empty or has surrounding whitespace, returning neither an error
\* value nor a pattern; hence every leaf of a returned pattern comes from a
\* non-empty token without surrounding whitespace.  The token in operator
\* position is not checked: L alone decides, so it never panics there and
\* is the operator built if L accepts it.
C5_MalformedAtomPanics ==
    Parsed =>
      /\ (\E p \in Paths(rd.sexp) :
            /\ NodeAt(rd.sexp, p).tag = "String"
            /\ ~WellFormedToken(NodeAt(rd.sexp, p).s)
            /\ CalledOn(p))
           => /\ pat.tag = "Panic" /\ pat.err.msg = MsgWhitespace
              /\ pat.val = NoPattern
              /\ pc = "expr" => (expr.tag = "Panic" /\ expr.val = NoExpr)
      /\ pat.tag = "Ok" =>
           \A p \in TermPaths(rd.sexp) :
             NodeAt(rd.sexp, p).tag = "String" => WellFormedToken(NodeAt(rd.sexp, p).s)
      /\ (rd.sexp.tag = "List" /\ Len(rd.sexp.vec) = 1
            /\ rd.sexp.vec[1].tag = "String") =>
           IF LangAccepts(lang, rd.sexp.vec[1].s)
           THEN pat.tag = "Ok" /\ pat.val = PatENode(rd.sexp.vec[1].s, <<>>)
           ELSE pat.tag = "Err"

\* The token " x" is an argument of an operator, and the call panicked.
C5_Witness ==
    /\ pc = "pattern"
    /\ rd = ReadOk(SexpList(<<SexpString(tokX), SexpString(tokSpX)>>))
    /\ pat.tag = "Panic" /\ pat.err.msg = MsgWhitespace

\* C6 as stated, for the Empty nodes the traversal comes to: at the root or
\* as any element of a list, the parse fails with the empty-term error.
C6_Original ==
    (Parsed /\ \E p \in Paths(rd.sexp) :
                  /\ NodeAt(rd.sexp, p) = SexpEmpty
                  /\ \E k \in 1..Len(pat.visited) : pat.visited[k].path = p)
      => (pat.tag = "Err" /\ pat.err.msg = MsgEmpty)

\* C6, amended: an Empty node the term builder is called on (the root, or a
\* non-first element of a list the traversal reaches) makes the parse fail
\* with the `empty!` error value; an Empty node that is the first element of
\* a list makes it fail with the `expected op` error value instead; and no
\* pattern is ever returned for a tree that holds an Empty node.
C6_EmptyRejected ==
    Parsed =>
      /\ (\E p \in Paths(rd.sexp) : NodeAt(rd.sexp, p) = SexpEmpty /\ CalledOn(p))
           => /\ pat.tag = "Err" /\ pat.val = NoPattern
              /\ pat.err = [msg |-> MsgEmpty, arg |-> SexpEmpty]
      /\ (\E p \in Paths(rd.sexp) :
            /\ NodeAt(rd.sexp, p) = SexpEmpty
            /\ \E k \in 1..Len(pat.visited) : pat.visited[k] = Visit(p, "op"))
           => /\ pat.tag = "Err" /\ pat.val = NoPattern
              /\ pat.err = [msg |-> MsgExpectedOp, arg |-> SexpEmpty]
      /\ (\E p \in Paths(rd.sexp) : NodeAt(rd.sexp, p) = SexpEmpty) => pat.tag # "Ok"
      /\ rd = ParseStr(<<>>) => (pat.tag = "Err" /\ pat.err.msg = MsgEmpty)

\* An Empty node is the argument of an operator, and the parse failed with
\* the empty-term error.
C6_Witness ==
    /\ pc = "pattern"
    /\ rd = ReadOk(SexpList(<<SexpString(tokX), SexpEmpty>>))
    /\ pat.tag = "Err" /\ pat.err.msg = MsgEmpty

\* Does an expression have a leaf whose operator begins with `?`.
RECURSIVE HasSigilLeaf(_)
HasSigilLeaf(e) ==
    IF e.children = <<>>
    THEN BeginsWithSigil(e.op)
    ELSE \E i \in 1..Len(e.children) : HasSigilLeaf(e.children[i])

\* C7 as stated: an expression built from operators of L, printed and
\* parsed as a RecExpr, comes back identical.
C7_Original == pc = "reparsed" => (expr.tag = "Ok" /\ expr.val = orig)

\* C7, amended: an expression built from operator tokens of L (non-empty,
\* without whitespace or parentheses), none of whose leaves has an operator
\* beginning with `?`, comes back identical when printed and parsed as a
\* RecExpr; if one of its leaves has such an operator, the text parses to a
\* pattern with a wildcard in its place and RecExpr::from_str fails.
C7_RoundTrip ==
    pc = "reparsed" =>
      /\ rd.ok /\ SexpToString(rd.sexp) = text
      /\ IF HasSigilLeaf(orig)
         THEN expr.tag = "Err" /\ expr.err.msg = MsgWildcard
         ELSE expr.tag = "Ok" /\ expr.val = orig

\* The expression of the repository's test, (+ x x), has come back.
C7_Witness ==
    /\ pc = "reparsed"
    /\ orig = RecNode(tokPlus, <<RecNode(tokX, <<>>), RecNode(tokX, <<>>)>>)
    /\ text = <<"(", "+", " ", "x", " ", "x", ")">>
    /\ expr = ExprOk(orig)

====
